---- MODULE Spec2Model ----
\* Model of yuzu's InstallDialog (src/yuzu/install_dialog.cpp): the constructor's
\* loop that resolves the input paths to list items, the user's check/uncheck of
\* the items, and GetFiles.
\*
\* Text (QString / std::string) is a sequence of one-character strings, so that
\* suffix tests, base names and fmt::format are computed character by character.
\* An optional / nullable value is <<>> (nullopt, nullptr) or <<x>>.
EXTENDS Integers, Sequences, FiniteSets, TLC

VARIABLES vfs, files, idx, file_list, pc, ret, emitted

vars == <<vfs, files, idx, file_list, pc, ret, emitted>>

\* ---------------------------------------------------------------- bounds
\* Longest input path list of the batch specification.
MaxFiles == 3
\* Longest collapsed content-archive list of a secure partition.
MaxNcas == 3

\* ---------------------------------------------------------------- optionals
None == <<>>
Some(x) == <<x>>
HasValue(o) == o # <<>>
Value(o) == o[1]

\* ---------------------------------------------------------------- text
UpperCase == <<"A","B","C","D","E","F","G","H","I","J","K","L","M",
               "N","O","P","Q","R","S","T","U","V","W","X","Y","Z">>
LowerCase == <<"a","b","c","d","e","f","g","h","i","j","k","l","m",
               "n","o","p","q","r","s","t","u","v","w","x","y","z">>

\* QChar::toCaseFolded on the letters of the alphabet.
FoldCase(c) ==
    IF \E k \in 1..Len(UpperCase) : UpperCase[k] = c
    THEN LowerCase[CHOOSE k \in 1..Len(UpperCase) : UpperCase[k] = c]
    ELSE c

\* QString::endsWith(s, Qt::CaseInsensitive)
EndsWith(str, s) ==
    /\ Len(s) <= Len(str)
    /\ \A k \in 1..Len(s) : FoldCase(str[Len(str) - Len(s) + k]) = FoldCase(s[k])

\* QFileInfo(file).fileName(): what follows the last '/' of the path.
filePath(file) == file

fileName(file) ==
    LET slashes == {k \in 1..Len(file) : file[k] = "/"}
        last == IF slashes = {} THEN 0
                ELSE CHOOSE k \in slashes : \A j \in slashes : j <= k
    IN  SubSeq(file, last + 1, Len(file))

DigitChars == <<"0","1","2","3","4","5","6","7","8","9">>

\* fmt's "{}" of an unsigned integer: its decimal digits.
RECURSIVE FormatInt(_)
FormatInt(n) ==
    IF n < 10 THEN <<DigitChars[n + 1]>>
    ELSE FormatInt(n \div 10) \o <<DigitChars[(n % 10) + 1]>>

\* fmt::format("{} ({}) (v{})", name, title_type_str, title_version)
FormatVersioned(name, title_type_str, title_version) ==
    name \o <<" ", "(">> \o title_type_str \o <<")", " ", "(", "v">>
         \o FormatInt(title_version) \o <<")">>

\* fmt::format("{} ({}) ({})", application_name, title_type_str, version_string)
FormatNamed(application_name, title_type_str, version_string) ==
    application_name \o <<" ", "(">> \o title_type_str \o <<")", " ", "(">>
         \o version_string \o <<")">>

\* ---------------------------------------------------------------- helpers of the file
TitleTypeToStringAll(title_type) ==
    CASE title_type = "Update" -> <<"U","p","d","a","t","e">>
      [] title_type = "AOC" -> <<"D","L","C">>
      [] title_type = "Application" -> <<"G","a","m","e">>
      [] OTHER -> <<>>

TitleTypeToString(title_type) ==
    CASE title_type = "Update" -> <<"U","p","d","a","t","e">>
      [] title_type = "AOC" -> <<"D","L","C">>
      [] OTHER -> <<>>

\* FileSys::CNMT{file}: the record decoded from the file.
CNMT(file) == file.data

GetCNMT(meta_nca) ==
    IF meta_nca.subdirs = <<>> THEN None
    ELSE LET section0 == meta_nca.subdirs[1]
         IN  IF section0 = <<>> THEN None
             ELSE Some(CNMT(section0[1]))

\* VfsDirectory::GetFile(name): the file of that exact name, or nullptr.
GetFile(dir, name) ==
    LET hits == {k \in 1..Len(dir) : dir[k].name = name}
    IN  IF hits = {} THEN None
        ELSE Some(dir[CHOOSE k \in hits : \A j \in hits : k <= j])

\* FileSys::NACP{file}: the record decoded from the file.
NACP(file) == file.data

GetNACPOneName(control_nca) ==
    LET romfs == control_nca.romfs
    IN  IF romfs = None THEN None
        ELSE LET extracted == Value(romfs).extracted
             IN  IF extracted = None THEN None
                 ELSE LET nacp_file == GetFile(Value(extracted), "control.nacp")
                      IN  IF nacp_file = None THEN None
                          ELSE Some(NACP(Value(nacp_file)))

GetNACP(control_nca) ==
    LET romfs == control_nca.romfs
    IN  IF romfs = None THEN None
        ELSE LET extracted == Value(romfs).extracted
             IN  IF extracted = None THEN None
                 ELSE LET first == GetFile(Value(extracted), "control.nacp")
                          nacp_file == IF first = None
                                       THEN GetFile(Value(extracted), "Control.nacp")
                                       ELSE first
                      IN  IF nacp_file = None THEN None
                          ELSE Some(NACP(Value(nacp_file)))

\* ---------------------------------------------------------------- the list widget
AddItemPrepend(list, file, formatted_name) ==
    <<[text |-> formatted_name, data |-> file, checkable |-> TRUE,
       checkState |-> "Checked"]>> \o list

\* new QListWidgetItem(formatted_name, file_list) appends the item to the list.
AddItem(list, file, formatted_name) ==
    Append(list, [text |-> formatted_name, data |-> file, checkable |-> TRUE,
                  checkState |-> "Checked"])

\* ---------------------------------------------------------------- the file system
\* What the external codec decodes from the files: texts, archives, partitions.
DeclaredName == <<"p","k","g">>
LowerName == <<"Z","e","l">>
UpperName == <<"M","k","8">>
VersionString == <<"1",".","2">>

CnmtFile(title_type, title_version) ==
    [name |-> "meta.cnmt", data |-> [type |-> title_type, title_version |-> title_version]]

NacpFile(name, application_name) ==
    [name |-> name,
     data |-> [application_name |-> application_name, version_string |-> VersionString]]

MetaNca(subdirs) == [type |-> "Meta", subdirs |-> subdirs, romfs |-> None]
ControlNca(romfs) == [type |-> "Control", subdirs |-> <<>>, romfs |-> romfs]

MetaUpdate == MetaNca(<< <<CnmtFile("Update", 65536)>> >>)
MetaAOC == MetaNca(<< <<CnmtFile("AOC", 0)>> >>)
MetaApplication == MetaNca(<< <<CnmtFile("Application", 0)>> >>)
MetaNoSubdir == MetaNca(<<>>)
MetaEmptyDir == MetaNca(<< <<>>, <<CnmtFile("Update", 65536)>> >>)
ControlLower == ControlNca(Some([extracted |-> Some(<<NacpFile("control.nacp", LowerName)>>)]))
ControlUpper ==
    ControlNca(Some([extracted |->
        Some(<<[name |-> "icon.dat", data |-> <<>>], NacpFile("Control.nacp", UpperName)>>)]))
ControlNoRomFS == ControlNca(None)
ControlNotExtracted == ControlNca(Some([extracted |-> None]))
ControlNoFile == ControlNca(Some([extracted |-> Some(<<[name |-> "icon.dat", data |-> <<>>]>>)]))
ProgramNca == [type |-> "Program", subdirs |-> <<>>, romfs |-> None]

Ncas == {MetaUpdate, MetaAOC, MetaApplication, MetaNoSubdir, MetaEmptyDir,
         ControlLower, ControlUpper, ControlNoRomFS, ControlNotExtracted, ControlNoFile,
         ProgramNca}

BoundedSeq(S, n) == UNION {[1..k -> S] : k \in 0..n}

\* The secure partitions the codec can produce: a status, a declared name and
\* the collapsed list of content archives.
Partitions ==
    [status : {"Success", "ErrorBadHeader"}, name : {DeclaredName},
     ncas : BoundedSeq(Ncas, MaxNcas)]

Partition(status, ncas) == [status |-> status, name |-> DeclaredName, ncas |-> ncas]

\* A file that is no partition at all, decoded as one.
NotAPartition == Partition("ErrorBadHeader", <<>>)

\* An opened file: what decoding it as a gamecard image and as a submission
\* package gives.
VfsFile(xci_secure, nsp) == [xci_secure |-> xci_secure, nsp |-> nsp]

PathANsp == <<"a",".","n","s","p">>
PathAXci == <<"a",".","x","c","i">>
PathRaw == <<"d","/","E",".","N","c","A">>
PathNoSecure == <<"n",".","X","C","I">>
PathText == <<"g",".","t","x","t">>
PathMissingNsp == <<"m",".","n","s","p">>
PathMissingNca == <<"m",".","n","c","a">>
PathDlc == <<"K",".","N","S","P">>
PathBadStatus == <<"s",".","n","s","p">>
PathNoMeta == <<"q",".","n","s","p">>
PathBadMeta == <<"r",".","x","c","i">>
PathGame == <<"t",".","n","s","p">>

Paths == {PathANsp, PathAXci, PathRaw, PathNoSecure, PathText, PathMissingNsp,
          PathMissingNca, PathDlc, PathBadStatus, PathNoMeta, PathBadMeta, PathGame}

PartitionPaths == {PathANsp, PathAXci}

\* The path lists of the partition specification.
PartitionBatches ==
    {<<PathAXci, PathANsp>>, <<PathANsp, PathAXci>>,
     <<PathMissingNca, PathRaw, PathText>>, <<PathNoSecure, PathMissingNsp, PathANsp>>}

DefaultPartition == Partition("Success", <<ProgramNca, MetaUpdate, ControlLower>>)

\* The file system around partition p: a.nsp is p, a.xci is a gamecard image
\* whose secure partition is p, and the other paths are fixed files.
VfsFor(p) ==
    [path \in Paths |->
        CASE path = PathANsp -> Some(VfsFile(None, p))
          [] path = PathAXci -> Some(VfsFile(Some(p), NotAPartition))
          [] path = PathRaw -> Some(VfsFile(Some(p), p))
          [] path = PathNoSecure -> Some(VfsFile(None, NotAPartition))
          [] path = PathText -> Some(VfsFile(Some(p), p))
          [] path = PathMissingNsp -> None
          [] path = PathMissingNca -> None
          [] path = PathDlc -> Some(VfsFile(None, Partition("Success", <<MetaAOC>>)))
          [] path = PathBadStatus ->
                Some(VfsFile(None, Partition("ErrorBadHeader", <<MetaUpdate, ControlLower>>)))
          [] path = PathNoMeta ->
                Some(VfsFile(None, Partition("Success", <<ProgramNca, ControlLower>>)))
          [] path = PathBadMeta ->
                Some(VfsFile(Some(Partition("Success", <<MetaNoSubdir, MetaUpdate>>)),
                             NotAPartition))
          [] path = PathGame ->
                Some(VfsFile(None, Partition("Success", <<MetaApplication, ControlLower>>)))]

\* vfs->OpenFile(path, Mode::Read): the file, or nullptr.
OpenFile(fs, path) == IF path \in DOMAIN fs THEN fs[path] ELSE None

\* std::make_shared<FileSys::XCI>(v_file)->GetSecurePartitionNSP()
GetSecurePartitionNSP(v_file) == v_file.xci_secure

\* std::make_shared<FileSys::NSP>(v_file)
NSP(v_file) == Some(v_file.nsp)

\* ---------------------------------------------------------------- the constructor's loop
Suffix_nca == <<"n","c","a">>
Suffix_xci == <<"x","c","i">>
Suffix_nsp == <<"n","s","p">>

\* The suffix dispatch to a partition: nullopt for the else branch (continue),
\* otherwise the (nullable) nsp pointer.
OpenNSPAlwaysPackage(file, v_file) ==
    IF EndsWith(file, Suffix_xci) THEN Some(NSP(v_file))
    ELSE IF EndsWith(file, Suffix_nsp) THEN Some(NSP(v_file))
    ELSE None

OpenNSPDefault(file, v_file) ==
    IF EndsWith(file, Suffix_xci) THEN Some(GetSecurePartitionNSP(v_file))
    ELSE Some(NSP(v_file))

OpenNSP(file, v_file) ==
    IF EndsWith(file, Suffix_xci) THEN Some(GetSecurePartitionNSP(v_file))
    ELSE IF EndsWith(file, Suffix_nsp) THEN Some(NSP(v_file))
    ELSE None

\* std::find_if(ncas.begin(), ncas.end(), type == ...): the index of the first
\* archive of the type, Len(ncas) + 1 for ncas.end().
FindIfLast(ncas, type) ==
    LET hits == {k \in 1..Len(ncas) : ncas[k].type = type}
    IN  IF hits = {} THEN Len(ncas) + 1
        ELSE CHOOSE k \in hits : \A j \in hits : j <= k

FindIf(ncas, type) ==
    LET hits == {k \in 1..Len(ncas) : ncas[k].type = type}
    IN  IF hits = {} THEN Len(ncas) + 1
        ELSE CHOOSE k \in hits : \A j \in hits : k <= j

\* The two formats of the item's text.
FormattedNameNoV(nsp, cnmt, nacp, title_type_str) ==
    IF ~HasValue(nacp)
    THEN FormatNamed(nsp.name, title_type_str, FormatInt(cnmt.title_version))
    ELSE FormatNamed(Value(nacp).application_name, title_type_str,
                     Value(nacp).version_string)

FormattedName(nsp, cnmt, nacp, title_type_str) ==
    IF ~HasValue(nacp)
    THEN FormatVersioned(nsp.name, title_type_str, cnmt.title_version)
    ELSE FormatNamed(Value(nacp).application_name, title_type_str,
                     Value(nacp).version_string)

\* `continue` of a skipped file, and the end of the body of an accepted one:
\* the list so far and the index of the next input.
SkipBreak(list, i) == [list |-> list, next |-> Len(files) + 1]

Skip(list, i) == [list |-> list, next |-> i + 1]

Accepted(list, i) == [list |-> list, next |-> i + 1]

\* One iteration of the loop over the input paths, on input i.
Iteration(fs, list, i, file) ==
    LET v_file == OpenFile(fs, file)
    IN  IF v_file = None THEN Skip(list, i)
        ELSE IF EndsWith(file, Suffix_nca)
        THEN Accepted(AddItem(list, file, fileName(file)), i)
        ELSE
        LET opened == OpenNSP(file, Value(v_file))
        IN  IF opened = None THEN Skip(list, i)
            ELSE
            LET nsp == Value(opened)
            IN  IF nsp = None \/ Value(nsp).status # "Success" THEN Skip(list, i)
                ELSE
                LET ncas == Value(nsp).ncas
                    meta_iter == FindIf(ncas, "Meta")
                    control_iter == FindIf(ncas, "Control")
                IN  IF meta_iter = Len(ncas) + 1 THEN Skip(list, i)
                    ELSE
                    LET cnmt == GetCNMT(ncas[meta_iter])
                    IN  IF ~HasValue(cnmt) THEN Skip(list, i)
                        ELSE
                        LET title_type_str == TitleTypeToString(Value(cnmt).type)
                        IN  IF title_type_str = <<>> THEN Skip(list, i)
                            ELSE
                            LET nacp == IF control_iter = Len(ncas) + 1 THEN None
                                        ELSE GetNACP(ncas[control_iter])
                            IN  Accepted(AddItem(list, file,
                                    FormattedName(Value(nsp), Value(cnmt), nacp,
                                                  title_type_str)), i)

\* QStringList::append of the checked items' paths, in list order.
RECURSIVE GetFilesAll(_)
GetFilesAll(list) ==
    IF list = <<>> THEN <<>>
    ELSE GetFilesAll(SubSeq(list, 1, Len(list) - 1)) \o <<list[Len(list)].data>>

RECURSIVE GetFiles(_)
GetFiles(list) ==
    IF list = <<>> THEN <<>>
    ELSE GetFiles(SubSeq(list, 1, Len(list) - 1))
         \o (IF list[Len(list)].checkState = "Checked" THEN <<list[Len(list)].data>>
             ELSE <<>>)

\* ---------------------------------------------------------------- the state machine
\* pc: "ctor" in the constructor's loop, "ready" once the dialog is constructed.
\* ret: the value the last operation returned (nullopt for a void operation).
\* emitted: for each input processed so far, the items the list grew by.
InitCommon ==
    /\ idx = 1
    /\ file_list = <<>>
    /\ pc = "ctor"
    /\ ret = None
    /\ emitted = <<>>

\* The batch: any list of paths of the fixed file system.
Init ==
    /\ vfs = VfsFor(DefaultPartition)
    /\ files \in BoundedSeq(Paths, MaxFiles)
    /\ InitCommon

\* Any partition, as a submission package and inside a gamecard image.
InitPartition ==
    /\ vfs \in {VfsFor(p) : p \in Partitions}
    /\ files \in PartitionBatches
    /\ InitCommon

\* for (const QString& file : files) { ... }
ProcessFile ==
    /\ pc = "ctor"
    /\ idx <= Len(files)
    /\ LET r == Iteration(vfs, file_list, idx, files[idx])
       IN  /\ file_list' = r.list
           /\ idx' = r.next
           /\ emitted' = Append(emitted, SubSeq(r.list, Len(file_list) + 1, Len(r.list)))
    /\ UNCHANGED <<vfs, files, pc, ret>>

\* The end of the loop and the rest of the constructor (layout, buttons).
FinishConstructor ==
    /\ pc = "ctor"
    /\ idx > Len(files)
    /\ pc' = "ready"
    /\ UNCHANGED <<vfs, files, idx, file_list, ret, emitted>>

\* The user checks or unchecks item i (Qt::ItemIsUserCheckable).
Toggle(i) ==
    /\ pc = "ready"
    /\ i \in 1..Len(file_list)
    /\ file_list[i].checkable
    /\ file_list' = [file_list EXCEPT ![i].checkState =
                        IF @ = "Checked" THEN "Unchecked" ELSE "Checked"]
    /\ ret' = None
    /\ UNCHANGED <<vfs, files, idx, pc, emitted>>

CallGetFiles ==
    /\ pc = "ready"
    /\ ret' = Some(GetFiles(file_list))
    /\ UNCHANGED <<vfs, files, idx, file_list, pc, emitted>>

Next ==
    \/ ProcessFile
    \/ FinishConstructor
    \/ \E i \in 1..Len(file_list) : Toggle(i)
    \/ CallGetFiles

Spec == Init /\ [][Next]_vars

SpecPartition == InitPartition /\ [][Next]_vars

\* ---------------------------------------------------------------- what the properties speak of
\* The inputs the loop has gone through.
Processed == 1..Len(emitted)

\* The paths of the inputs among the first n that the list grew by an item for.
RECURSIVE AcceptedPaths(_)
AcceptedPaths(n) ==
    IF n = 0 THEN <<>>
    ELSE AcceptedPaths(n - 1) \o (IF emitted[n] # <<>> THEN <<files[n]>> ELSE <<>>)

ItemPaths(list) == [k \in 1..Len(list) |-> list[k].data]

\* The partition under test: what a.nsp is and what a.xci wraps.
TestPartition == Value(vfs[PathANsp]).nsp

\* The first archive of a kind in the collapsed list, 0 if there is none.
FirstOfKind(kind) ==
    LET ncas == TestPartition.ncas
        S == {k \in 1..Len(ncas) : ncas[k].type = kind}
    IN  IF S = {} THEN 0 ELSE CHOOSE k \in S : \A j \in S : k <= j

\* The metadata records an archive decodes to: the first file of its first
\* sub-directory.
RecordsOf(nca) ==
    IF Len(nca.subdirs) >= 1 /\ Len(nca.subdirs[1]) >= 1
    THEN {nca.subdirs[1][1].data} ELSE {}

\* The application properties an archive carries under the two known names.
PropertiesOf(nca) ==
    IF nca.romfs = <<>> THEN {}
    ELSE IF nca.romfs[1].extracted = <<>> THEN {}
    ELSE LET dir == nca.romfs[1].extracted[1]
         IN  {dir[k].data : k \in {j \in 1..Len(dir) :
                                     dir[j].name \in {"control.nacp", "Control.nacp"}}}

InstallTypes == {"Update", "AOC"}

FirstMetaRecords ==
    IF FirstOfKind("Meta") = 0 THEN {} ELSE RecordsOf(TestPartition.ncas[FirstOfKind("Meta")])

FirstControlProperties ==
    IF FirstOfKind("Control") = 0 THEN {}
    ELSE PropertiesOf(TestPartition.ncas[FirstOfKind("Control")])

\* The partition is one the resolver lists: it parsed, and its first Meta
\* archive decodes to an update or an add-on content.
Installable ==
    /\ TestPartition.status = "Success"
    /\ \E r \in FirstMetaRecords : r.type \in InstallTypes

CategoryUpdate == <<" ","(","U","p","d","a","t","e",")"," ","(">>
CategoryDLC == <<" ","(","D","L","C",")"," ","(">>

Contains(text, part) ==
    \E k \in 0..(Len(text) - Len(part)) : SubSeq(text, k + 1, k + Len(part)) = part

\* The two labels, written out for the records of the catalogue.
CategoryOf(r) == IF r.type = "Update" THEN CategoryUpdate ELSE CategoryDLC

DeclaredLabel(r) ==
    <<"p","k","g">> \o CategoryOf(r)
        \o (IF r.title_version = 65536 THEN <<"v","6","5","5","3","6">> ELSE <<"v","0">>)
        \o <<")">>

PropertiesLabel(n, r) ==
    n.application_name \o CategoryOf(r) \o <<"1",".","2",")">>

PropertiesLabels == {PropertiesLabel(n, r) : n \in FirstControlProperties, r \in FirstMetaRecords}
DeclaredLabels == {DeclaredLabel(r) : r \in FirstMetaRecords}

RECURSIVE IsSubsequence(_, _)
IsSubsequence(a, b) ==
    IF a = <<>> THEN TRUE
    ELSE IF b = <<>> THEN FALSE
    ELSE IF a[1] = b[1] THEN IsSubsequence(Tail(a), Tail(b))
    ELSE IsSubsequence(a, Tail(b))

\* The paths of the checked items, in list order.
CheckedPaths ==
    LET checked == SelectSeq(file_list, LAMBDA item : item.checkState = "Checked")
    IN  [k \in 1..Len(checked) |-> checked[k].data]

\* What an input came to, whatever its path: the text and check state of its item.
Outcome(i) == [k \in 1..Len(emitted[i]) |->
                  [text |-> emitted[i][k].text, checkState |-> emitted[i][k].checkState]]

\* ---------------------------------------------------------------- properties
\* C1: the paths of the list's items are the input paths gone through so far,
\* in input order, with those that gave no item left out; an input gives at most
\* one item, and that item carries the input's own path.
C1_OrderPreserved ==
    /\ ItemPaths(file_list) = AcceptedPaths(Len(emitted))
    /\ \A i \in Processed :
          /\ Len(emitted[i]) <= 1
          /\ emitted[i] # <<>> => emitted[i][1].data = files[i]

C1_Witness ==
    /\ pc = "ready"
    /\ files = <<PathANsp, PathText, PathANsp>>
    /\ ItemPaths(file_list) = <<PathANsp, PathANsp>>

\* C2: a skipped input never ends the loop: every input before idx has been
\* gone through, the constructed dialog has gone through all of them, each gave
\* one item or none, and two occurrences of a path give the same, whatever
\* came before them.
C2_SkipNeverAborts ==
    /\ idx <= Len(files) + 1
    /\ Len(emitted) = idx - 1
    /\ pc = "ready" => Len(emitted) = Len(files)
    /\ \A i \in Processed : Len(emitted[i]) \in {0, 1}
    /\ \A i, j \in Processed : files[i] = files[j] => emitted[i] = emitted[j]

C2_Witness ==
    /\ pc = "ready"
    /\ files \in {<<PathBadStatus, PathGame, PathDlc>>, <<PathNoMeta, PathBadMeta, PathDlc>>,
                  <<PathMissingNsp, PathNoSecure, PathDlc>>}
    /\ ItemPaths(file_list) = <<PathDlc>>

\* C3: an item of an nsp or xci path has the category Update or DLC in its
\* label, and a partition whose first Meta archive decodes to another title
\* type (or to none) gives no item.
C3_OnlyUpdateOrDLC ==
    /\ \A k \in 1..Len(file_list) :
          file_list[k].data \in PartitionPaths =>
              \/ Contains(file_list[k].text, CategoryUpdate)
              \/ Contains(file_list[k].text, CategoryDLC)
    /\ (\A r \in FirstMetaRecords : r.type \notin InstallTypes) =>
          \A i \in Processed : files[i] \in PartitionPaths => emitted[i] = <<>>

C3_Witness ==
    /\ pc = "ready"
    /\ files = <<PathAXci, PathANsp>>
    /\ TestPartition.status = "Success"
    /\ \E r \in FirstMetaRecords : r.type = "Application"
    /\ FirstControlProperties # {}
    /\ file_list = <<>>

\* C4: an opened file of suffix nca gives one item, labelled with the base name
\* of the path, whatever the file holds.
C4_RawArchiveLabel ==
    \A i \in Processed :
        files[i] = PathRaw =>
            /\ Len(emitted[i]) = 1
            /\ emitted[i][1].text = <<"E",".","N","c","A">>
            /\ emitted[i][1].data = PathRaw

C4_Witness ==
    /\ pc = "ready"
    /\ files[2] = PathRaw
    /\ ~Installable
    /\ Len(file_list) = 1
    /\ file_list[1].text = <<"E",".","N","c","A">>

\* C5: the item of a partition whose first Control archive carries properties
\* under one of the two names is labelled from the properties and not from the
\* declared name; every item of a partition has exactly one of the two labels.
C5_PropertiesFirst ==
    \A i \in Processed :
        (files[i] \in PartitionPaths /\ emitted[i] # <<>>) =>
            LET text == emitted[i][1].text
            IN  /\ FirstControlProperties # {} =>
                      (text \in PropertiesLabels /\ text \notin DeclaredLabels)
                /\ (text \in PropertiesLabels) # (text \in DeclaredLabels)

C5_Witness ==
    /\ pc = "ready"
    /\ files = <<PathANsp, PathAXci>>
    /\ FirstOfKind("Control") # 0
    /\ TestPartition.ncas[FirstOfKind("Control")] = ControlUpper
    /\ Len(file_list) = 2
    /\ file_list[1].text = <<"M","k","8"," ","(","D","L","C",")"," ","(","1",".","2",")">>

\* C6: an installable partition with no properties to be had from its first
\* Control archive (or with no Control archive) still gives one item, labelled
\* from the declared name and the title version.
C6_FallbackLabel ==
    (Installable /\ FirstControlProperties = {}) =>
        \A i \in Processed :
            files[i] \in PartitionPaths =>
                /\ Len(emitted[i]) = 1
                /\ emitted[i][1].text \in DeclaredLabels

C6_Witness ==
    /\ pc = "ready"
    /\ files = <<PathANsp, PathAXci>>
    /\ FirstOfKind("Control") # 0
    /\ TestPartition.ncas[FirstOfKind("Control")] = ControlNotExtracted
    /\ Len(file_list) = 2
    /\ file_list[2].text = <<"p","k","g"," ","(","U","p","d","a","t","e",")"," ",
                             "(","v","6","5","5","3","6",")">>

\* C7: a gamecard image wrapping a partition and a submission package that is
\* the partition come to the same: both skipped, or items of the same label
\* and check state; a gamecard image with no secure partition is skipped.
C7_GamecardAsPartition ==
    /\ \A i, j \in Processed :
          (files[i] = PathAXci /\ files[j] = PathANsp) => Outcome(i) = Outcome(j)
    /\ \A i \in Processed : files[i] = PathNoSecure => emitted[i] = <<>>

C7_Witness ==
    /\ pc = "ready"
    /\ files = <<PathAXci, PathANsp>>
    /\ Len(file_list) = 2
    /\ file_list[1].text = file_list[2].text
    /\ file_list[1].data = PathAXci

\* C8: a path of another suffix than nca, xci, nsp gives no item whatever the
\* file holds, and a file that cannot be opened gives none whatever its suffix.
C8_UnrecognizedOrUnopened ==
    \A i \in Processed :
        (files[i] \in {PathText, PathMissingNca, PathMissingNsp}) => emitted[i] = <<>>

C8_Witness ==
    /\ pc = "ready"
    /\ files = <<PathMissingNca, PathRaw, PathText>>
    /\ Installable
    /\ ItemPaths(file_list) = <<PathRaw>>

\* C9: what GetFiles returned is the paths of the checked items in list order,
\* a subsequence of the input; items are checked until the user toggles them.
C9_GetFilesChecked ==
    /\ ret # None =>
          /\ Value(ret) = CheckedPaths
          /\ IsSubsequence(Value(ret), files)
    /\ pc = "ctor" => \A k \in 1..Len(file_list) : file_list[k].checkState = "Checked"
    /\ (ret # None /\ \A k \in 1..Len(file_list) : file_list[k].checkState = "Checked") =>
          Value(ret) = AcceptedPaths(Len(emitted))

C9_Witness ==
    /\ ret # None
    /\ files = <<PathDlc, PathGame, PathAXci>>
    /\ Len(file_list) = 2
    /\ file_list[1].checkState = "Unchecked"
    /\ Value(ret) = <<PathAXci>>

\* C10: only the first Meta and the first Control archive count: a first Meta
\* archive that does not decode to an update or add-on content drops the
\* partition though a later one would do, and a first Control archive without
\* properties gives the declared-name label though a later one carries them.
LaterOfKind(kind) ==
    {k \in 1..Len(TestPartition.ncas) :
        TestPartition.ncas[k].type = kind /\ k > FirstOfKind(kind)}

C10_FirstArchiveOnly ==
    \A i \in Processed :
        files[i] \in PartitionPaths =>
            /\ ((\A r \in FirstMetaRecords : r.type \notin InstallTypes)
                /\ \E k \in LaterOfKind("Meta") :
                      \E r \in RecordsOf(TestPartition.ncas[k]) : r.type \in InstallTypes)
               => emitted[i] = <<>>
            /\ (emitted[i] # <<>> /\ FirstControlProperties = {}
                /\ \E k \in LaterOfKind("Control") : PropertiesOf(TestPartition.ncas[k]) # {})
               => emitted[i][1].text \in DeclaredLabels

C10_Witness ==
    /\ pc = "ready"
    /\ files = <<PathANsp, PathAXci>>
    /\ TestPartition.status = "Success"
    /\ TestPartition.ncas = <<MetaAOC, ControlNoFile, ControlLower>>
    /\ Len(file_list) = 2
    /\ file_list[1].text = <<"p","k","g"," ","(","D","L","C",")"," ","(","v","0",")">>

====
